---- MODULE Spec2Model ----
(***************************************************************************)
(* A model of the `Nullable` derive macro (src/src/lib.rs) and of the      *)
(* code it emits.                                                          *)
(*                                                                         *)
(* The build pipeline is a state machine:                                  *)
(*   declared --Derive--> expanded | panicked                              *)
(*   expanded --HostBuild--> built | rejected                              *)
(*   built    --New / NewDefault / DefaultImpl--> live                     *)
(*   live     --CallValue / CallGet / CallSet--> live                      *)
(*                                                                         *)
(* Identifiers are sequences of characters, so that `to_lowercase` and     *)
(* `format!("set_{}", ..)` are computed, not assumed.  The emitted token   *)
(* stream is a sequence of items (struct, impl, impl Default); the runtime *)
(* actions interpret the emitted function bodies, and resolve a method by  *)
(* its emitted name.                                                       *)
(***************************************************************************)
EXTENDS Integers, Sequences, FiniteSets, TLC

VARIABLES
  input,     \* the annotated declaration (syn::DeriveInput)
  phase,     \* "declared" | "panicked" | "expanded" | "rejected" | "built" | "live"
  panic,     \* the macro's panic message, "" when it did not panic
  expanded,  \* the emitted token stream, <<>> when nothing was emitted
  instance,  \* the instance of the emitted type: field |-> Option value
  prev,      \* the instance as it was before the last call
  origin,    \* the constructor that made the instance
  last       \* the last call made: name, kind, field, args, ret

vars == <<input, phase, panic, expanded, instance, prev, origin, last>>

(***************************************************************************)
(* Bounds and input universes.                                             *)
(***************************************************************************)
\* Largest number of fields of an input declaration.
MaxFields == 2

\* Field identifiers offered to the macro: plain ones, one with an uppercase
\* letter, one carrying the `get_` prefix of another, and one named `new`.
FieldNames ==
  { <<"a">>, <<"A">>, <<"b">>, <<"c">>, <<"g","e","t","_","a">>, <<"n","e","w">> }

\* Field types offered to the macro (both are Clone + Default).  A type is
\* its sequence of tokens.
FieldTypes == { <<"i32">>, <<"String">> }

\* Identifier of the annotated type.
TypeNames == { <<"S">> }

\* A field without identifier (tuple struct): syn's `ident: None`.
NoIdent == <<>>

(***************************************************************************)
(* Values of the field types at run time.                                  *)
(***************************************************************************)
\* Every value is written as its literal text, so that values of different
\* types can be told apart by plain equality (an i32 is never equal to a
\* String).
Values(ty) == IF ty = <<"i32">> THEN {"0", "42"} ELSE {"", "hello"}

\* <T as Default>::default(): 0 for i32, the empty string for String.
Default(ty) == IF ty = <<"i32">> THEN "0" ELSE ""

\* std::option::Option<T>: None is the empty sequence, Some(v) is <<v>>.
None == <<>>

Some(v) == <<v>>

(***************************************************************************)
(* String conversions used by the macro.                                   *)
(***************************************************************************)
UpperToLower == [ch \in {"A", "B", "C", "S"} |->
                   CASE ch = "A" -> "a" [] ch = "B" -> "b"
                     [] ch = "C" -> "c" [] ch = "S" -> "s"]

\* str::to_lowercase, character by character.
to_lowercase(s) ==
  [i \in 1..Len(s) |-> IF s[i] \in DOMAIN UpperToLower THEN UpperToLower[s[i]] ELSE s[i]]

\* format!("Nullable{}", name)
nullable_name(name) == <<"N","u","l","l","a","b","l","e">> \o name

(***************************************************************************)
(* Input declarations (syn::DeriveInput).                                  *)
(*   data  : "struct" | "enum" | "union"                                   *)
(*   style : "named" | "unnamed" | "unit"       (syn::Fields)              *)
(*   fields: the ordered (ident, ty) pairs that Fields::iter() yields      *)
(***************************************************************************)
RECURSIVE FieldLists(_)
\* All field lists of length n over the given identifiers, names pairwise
\* distinct as the host language requires of a declaration.
FieldLists(n) ==
  IF n = 0 THEN { <<>> }
  ELSE { Append(fs, [ident |-> id, ty |-> ty]) :
           fs \in FieldLists(n - 1),
           id \in FieldNames, ty \in FieldTypes }

DistinctNames(fs) == \A i, j \in 1..Len(fs) : fs[i].ident = fs[j].ident => i = j

NamedFieldLists ==
  UNION { { fs \in FieldLists(n) : DistinctNames(fs) } : n \in 0..MaxFields }

UnnamedFieldLists ==
  UNION { [1..n -> { [ident |-> NoIdent, ty |-> ty] : ty \in FieldTypes }] : n \in 0..MaxFields }

Inputs ==
  { [data |-> "struct", ident |-> nm, style |-> "named", fields |-> fs] :
      nm \in TypeNames, fs \in NamedFieldLists }
  \cup
  { [data |-> "struct", ident |-> nm, style |-> "unnamed", fields |-> fs] :
      nm \in TypeNames, fs \in UnnamedFieldLists }
  \cup
  { [data |-> d, ident |-> nm, style |-> "unit", fields |-> <<>>] :
      nm \in TypeNames, d \in {"struct", "enum", "union"} }

(***************************************************************************)
(* The macro.  An emitted function is a record                             *)
(*   name, recv ("none" | "&self" | "&mut self"), params, ret, body        *)
(* and a body is  op, field, inits.  A struct-literal initialiser is       *)
(*   field, expr ("param" | "default" | "none"), param, ty.                *)
(***************************************************************************)
OptionOf(ty) == <<"std::option::Option", "<">> \o ty \o <<">">>

\* format!("set_{}", ident.to_string().to_lowercase())
setter_name(ident) == <<"s","e","t","_">> \o to_lowercase(ident)

\* format!("get_{}", ident.to_string().to_lowercase())
getter_name(ident) == <<"g","e","t","_">> \o to_lowercase(ident)

\* pub fn #ident(&self) -> #ty { self.#ident.clone().unwrap_or_default() }
value_fn(field) ==
  [name |-> field.ident, recv |-> "&self", params |-> <<>>, ret |-> field.ty,
   body |-> [op |-> "clone_unwrap_or_default", field |-> field.ident, inits |-> <<>>]]

\* pub fn #getter_name(&self) -> Option<&#ty> { self.#ident.as_ref() }
get_fn(field) ==
  [name |-> getter_name(field.ident), recv |-> "&self", params |-> <<>>,
   ret |-> <<"Option", "<", "&">> \o field.ty \o <<">">>,
   body |-> [op |-> "as_ref", field |-> field.ident, inits |-> <<>>]]

\* pub fn #setter_name(&mut self, value: #ty) { self.#ident = Some(value) }
set_fn(field) ==
  [name |-> setter_name(field.ident), recv |-> "&mut self",
   params |-> << [ident |-> <<"v","a","l","u","e">>, ty |-> field.ty] >>,
   ret |-> <<"()">>,
   body |-> [op |-> "assign_some", field |-> field.ident, inits |-> <<>>]]

\* Mutant of generate_setter_and_getter_functions: a field without
\* identifier is passed on instead of panicking (`expect` dropped).
generate_without_expect(fields) ==
  [panicked |-> FALSE,
   fns |-> [k \in 1..(3 * Len(fields)) |->
              LET field == fields[(k + 2) \div 3]
              IN  CASE k % 3 = 1 -> value_fn(field)
                    [] k % 3 = 2 -> get_fn(field)
                    [] OTHER     -> set_fn(field)]]

\* fields.iter().map(|field| ..).collect(): three functions per field, in
\* field order; `expect` panics on the first field that has no identifier.
generate_setter_and_getter_functions(fields) ==
  IF \E i \in 1..Len(fields) : fields[i].ident = NoIdent
  THEN [panicked |-> TRUE, fns |-> <<>>]
  ELSE [panicked |-> FALSE,
        fns |-> [k \in 1..(3 * Len(fields)) |->
                   LET field == fields[(k + 2) \div 3]
                   IN  CASE k % 3 = 1 -> value_fn(field)
                         [] k % 3 = 2 -> get_fn(field)
                         [] OTHER     -> set_fn(field)]]

\* Mutant of field_tokens: the field type is emitted without the Option.
field_tokens_unwrapped(fields) ==
  [i \in 1..Len(fields) |-> [ident |-> fields[i].ident, ty |-> fields[i].ty]]

\* #ident: std::option::Option<#ty>,
field_tokens(fields) ==
  [i \in 1..Len(fields) |-> [ident |-> fields[i].ident, ty |-> OptionOf(fields[i].ty)]]

\* Mutant of field_none_inis: Default initialises with Some(default).
field_none_inis_some(fields) ==
  [i \in 1..Len(fields) |->
     [field |-> fields[i].ident, expr |-> "default", param |-> NoIdent, ty |-> fields[i].ty]]

\* #ident: None,
field_none_inis(fields) ==
  [i \in 1..Len(fields) |->
     [field |-> fields[i].ident, expr |-> "none", param |-> NoIdent, ty |-> fields[i].ty]]

\* Mutant of field_def_inis: new_default initialises with None.
field_def_inis_none(fields) ==
  [i \in 1..Len(fields) |->
     [field |-> fields[i].ident, expr |-> "none", param |-> NoIdent, ty |-> fields[i].ty]]

\* #ident: Some(#ty::default()),
field_def_inis(fields) ==
  [i \in 1..Len(fields) |->
     [field |-> fields[i].ident, expr |-> "default", param |-> NoIdent, ty |-> fields[i].ty]]

\* #ident: #ty,
field_params(fields) ==
  [i \in 1..Len(fields) |-> [ident |-> fields[i].ident, ty |-> fields[i].ty]]

\* Mutant of identifiers: the i-th field is initialised from the parameter
\* at the mirrored position.
identifiers_mirrored(fields) ==
  [i \in 1..Len(fields) |->
     [field |-> fields[i].ident, expr |-> "param",
      param |-> fields[Len(fields) + 1 - i].ident, ty |-> fields[i].ty]]

\* #ident: Some(#ident),
identifiers(fields) ==
  [i \in 1..Len(fields) |->
     [field |-> fields[i].ident, expr |-> "param", param |-> fields[i].ident,
      ty |-> fields[i].ty]]

\* pub fn new(#(#field_params)*) -> Self { Self { #(#identifiers)* } }
new_fn(fields) ==
  [name |-> <<"n","e","w">>, recv |-> "none", params |-> field_params(fields),
   ret |-> <<"Self">>,
   body |-> [op |-> "struct", field |-> NoIdent, inits |-> identifiers(fields)]]

\* pub fn new_default() -> Self { Self { #(#field_def_inis)* } }
new_default_fn(fields) ==
  [name |-> <<"n","e","w","_","d","e","f","a","u","l","t">>, recv |-> "none",
   params |-> <<>>, ret |-> <<"Self">>,
   body |-> [op |-> "struct", field |-> NoIdent, inits |-> field_def_inis(fields)]]

\* impl Default: fn default() -> Self { Self { #(#field_none_inis)* } }
default_fn(fields) ==
  [name |-> <<"d","e","f","a","u","l","t">>, recv |-> "none",
   params |-> <<>>, ret |-> <<"Self">>,
   body |-> [op |-> "struct", field |-> NoIdent, inits |-> field_none_inis(fields)]]

\* The `expanded` token stream: the struct, its impl, its impl of Default.
expand(name, fields, fns) ==
  << [item |-> "struct", name |-> nullable_name(name),
      fields |-> field_tokens(fields), fns |-> <<>>],
     [item |-> "impl", name |-> nullable_name(name), fields |-> <<>>,
      fns |-> <<new_fn(fields), new_default_fn(fields)>> \o fns],
     [item |-> "impl Default", name |-> nullable_name(name), fields |-> <<>>,
      fns |-> <<default_fn(fields)>>] >>

\* pub fn nullable(input: TokenStream) -> TokenStream.  A panic of the macro
\* is a fatal error of the build and leaves no tokens.
nullable(inp) ==
  IF inp.data = "struct"
  THEN LET g == generate_setter_and_getter_functions(inp.fields)
       IN  IF g.panicked
           THEN [panic |-> "No identifier found for type", tokens |-> <<>>]
           ELSE [panic |-> "", tokens |-> expand(inp.ident, inp.fields, g.fns)]
  ELSE [panic |-> "Only structs are nullable.", tokens |-> <<>>]

(***************************************************************************)
(* The host build and the run-time meaning of the emitted code.            *)
(***************************************************************************)
StructFields(tokens) == tokens[1].fields

ImplFns(tokens) == tokens[2].fns

DefaultImplFns(tokens) == tokens[3].fns

\* The inherent impl defines two functions of one name: the host compiler
\* refuses the emitted code.
DuplicateDefinitions(fns) ==
  \E i, j \in 1..Len(fns) : i # j /\ fns[i].name = fns[j].name

\* Name resolution of a call `recv.name(..)` / `Type::name(..)`.
Resolve(fns, name) == fns[CHOOSE k \in 1..Len(fns) : fns[k].name = name]

RECURSIVE ArgTuples(_)
\* The argument tuples a call site can pass: one value per parameter, of
\* the parameter's type.
ArgTuples(params) ==
  IF params = <<>> THEN { <<>> }
  ELSE { <<v>> \o rest : v \in Values(Head(params).ty), rest \in ArgTuples(Tail(params)) }

\* Positional binding of the arguments to the parameter names.
Bind(params, args) ==
  [n \in { params[i].ident : i \in 1..Len(params) } |->
     args[CHOOSE i \in 1..Len(params) : params[i].ident = n]]

\* One initialiser of a struct literal.
EvalInit(init, env) ==
  CASE init.expr = "param"   -> Some(env[init.param])
    [] init.expr = "default" -> Some(Default(init.ty))
    [] OTHER                 -> None

\* Self { f1: e1, .., fN: eN }
StructLit(inits, env) ==
  [f \in { inits[i].field : i \in 1..Len(inits) } |->
     EvalInit(inits[CHOOSE i \in 1..Len(inits) : inits[i].field = f], env)]

\* Mutant of clone_unwrap_or_default: the default is stored in an absent
\* field (get_or_insert_with(Default::default)).
get_or_insert_default(self, f, ty) ==
  [self |-> [self EXCEPT ![f] = IF self[f] = None THEN Some(Default(ty)) ELSE self[f]],
   ret |-> IF self[f] = None THEN Default(ty) ELSE self[f][1]]

\* self.#ident.clone().unwrap_or_default()
clone_unwrap_or_default(self, f, ty) ==
  [self |-> self, ret |-> IF self[f] = None THEN Default(ty) ELSE self[f][1]]

\* Mutant of as_ref: the value is moved out of the field (take()).
take(self, f) ==
  [self |-> [self EXCEPT ![f] = None], ret |-> self[f]]

\* self.#ident.as_ref()
as_ref(self, f) ==
  [self |-> self, ret |-> self[f]]

\* Mutant of assign_some: a present field keeps its value
\* (get_or_insert(value)).
get_or_insert(self, f, value) ==
  [self |-> [self EXCEPT ![f] = IF self[f] = None THEN Some(value) ELSE self[f]],
   ret |-> <<>>]

\* self.#ident = Some(value)
assign_some(self, f, value) ==
  [self |-> [self EXCEPT ![f] = Some(value)], ret |-> <<>>]

\* A call of an emitted method on `self`.
Exec(fn, self, args) ==
  CASE fn.body.op = "clone_unwrap_or_default" ->
         clone_unwrap_or_default(self, fn.body.field, fn.ret)
    [] fn.body.op = "as_ref" -> as_ref(self, fn.body.field)
    [] OTHER -> assign_some(self, fn.body.field, args[1])

\* A call of an emitted constructor.
Construct(fn, args) == StructLit(fn.body.inits, Bind(fn.params, args))

NoCall == [name |-> <<>>, kind |-> "none", field |-> NoIdent, args |-> <<>>, ret |-> <<>>]

(***************************************************************************)
(* The state machine.                                                      *)
(***************************************************************************)
Init ==
  /\ input \in Inputs
  /\ phase = "declared"
  /\ panic = ""
  /\ expanded = <<>>
  /\ instance = <<>>
  /\ prev = <<>>
  /\ origin = "none"
  /\ last = NoCall

\* #[derive(Nullable)]: the compiler runs the macro on the declaration.
Derive ==
  /\ phase = "declared"
  /\ LET r == nullable(input)
     IN  /\ phase' = IF r.panic = "" THEN "expanded" ELSE "panicked"
         /\ panic' = r.panic
         /\ expanded' = r.tokens
  /\ UNCHANGED <<input, instance, prev, origin, last>>

\* The host build type-checks the emitted items.
HostBuild ==
  /\ phase = "expanded"
  /\ phase' = IF DuplicateDefinitions(ImplFns(expanded)) THEN "rejected" ELSE "built"
  /\ UNCHANGED <<input, panic, expanded, instance, prev, origin, last>>

Created(ctor, fn, args) ==
  /\ phase' = "live"
  /\ instance' = Construct(fn, args)
  /\ prev' = instance'
  /\ origin' = ctor
  /\ last' = [name |-> fn.name, kind |-> ctor, field |-> NoIdent, args |-> args, ret |-> <<>>]
  /\ UNCHANGED <<input, panic, expanded>>

\* NullableS::new(v1, .., vN)
New ==
  /\ phase = "built"
  /\ LET fn == Resolve(ImplFns(expanded), <<"n","e","w">>)
     IN  \E args \in ArgTuples(fn.params) : Created("new", fn, args)

\* NullableS::new_default()
NewDefault ==
  /\ phase = "built"
  /\ Created("new_default",
             Resolve(ImplFns(expanded), <<"n","e","w","_","d","e","f","a","u","l","t">>), <<>>)

\* NullableS::default()
DefaultImpl ==
  /\ phase = "built"
  /\ Created("default",
             Resolve(DefaultImplFns(expanded), <<"d","e","f","a","u","l","t">>), <<>>)

\* instance.name(args) for an emitted method whose body is `op`.
Call(op) ==
  /\ phase = "live"
  /\ \E k \in 1..Len(ImplFns(expanded)) :
       /\ ImplFns(expanded)[k].body.op = op
       /\ LET fn == Resolve(ImplFns(expanded), ImplFns(expanded)[k].name)
          IN  \E args \in ArgTuples(fn.params) :
                LET r == Exec(fn, instance, args)
                IN  /\ instance' = r.self
                    /\ prev' = instance
                    /\ last' = [name |-> fn.name, kind |-> fn.body.op,
                                field |-> fn.body.field, args |-> args,
                                ret |-> <<r.ret>>]
  /\ UNCHANGED <<input, phase, panic, expanded, origin>>

\* instance.f()
CallValue == Call("clone_unwrap_or_default")

\* instance.get_f()
CallGet == Call("as_ref")

\* instance.set_f(value)
CallSet == Call("assign_some")

Next ==
  \/ Derive
  \/ HostBuild
  \/ New
  \/ NewDefault
  \/ DefaultImpl
  \/ CallValue
  \/ CallGet
  \/ CallSet

Spec == Init /\ [][Next]_vars

(***************************************************************************)
(* Vocabulary of the properties.                                           *)
(***************************************************************************)
Live == phase = "live"

Emitted == phase \in {"expanded", "rejected", "built", "live"}

Fns == ImplFns(expanded)

\* The result of calling the emitted method `name` on the instance now.
Ret(name, args) == Exec(Resolve(Fns, name), instance, args).ret

\* instance.f() and instance.get_f() for the declared field f.
ValueOf(f) == Ret(f, <<>>)

GetOf(f) == Ret(getter_name(f), <<>>)

FieldIdents == { input.fields[i].ident : i \in 1..Len(input.fields) }

\* C1: right after set_f(v), whatever the field held before, get_f()
\* returns Some(v) and f() returns v.
SetThenGet ==
  (Live /\ last.kind = "assign_some") =>
     /\ last.name = setter_name(last.field)
     /\ GetOf(last.field) = Some(last.args[1])
     /\ ValueOf(last.field) = last.args[1]

\* C1 witness: a setter overwrote a field that was present with another value.
SetOverwroteWitness ==
  /\ Live /\ last.kind = "assign_some"
  /\ prev[last.field] # None
  /\ prev[last.field] # Some(last.args[1])
  /\ GetOf(last.field) = Some(last.args[1])

\* C2: right after new(v1, .., vN) every field is present and the i-th
\* declared field holds the i-th argument: get_f_i() = Some(v_i), f_i() = v_i.
NewBindsPositionally ==
  (Live /\ last.kind = "new") =>
     /\ Len(last.args) = Len(input.fields)
     /\ \A i \in 1..Len(input.fields) :
          /\ GetOf(input.fields[i].ident) = Some(last.args[i])
          /\ ValueOf(input.fields[i].ident) = last.args[i]

\* C2 witness: new was called on a two-field type with two different values
\* of one type, so a swap of the arguments would show.
NewWitness ==
  /\ Live /\ last.kind = "new"
  /\ Len(input.fields) = 2
  /\ input.fields[1].ty = input.fields[2].ty
  /\ last.args[1] # last.args[2]
  /\ ValueOf(input.fields[1].ident) = last.args[1]

\* C3: right after default() every field is absent: get_f_i() = None and
\* f_i() is the default value of T_i.
DefaultAllAbsent ==
  (Live /\ last.kind = "default") =>
     \A i \in 1..Len(input.fields) :
        /\ GetOf(input.fields[i].ident) = None
        /\ ValueOf(input.fields[i].ident) = Default(input.fields[i].ty)

\* C3 witness: default() built an instance of a type with an i32 and a
\* String field.
DefaultWitness ==
  /\ Live /\ last.kind = "default"
  /\ Len(input.fields) = 2
  /\ input.fields[1].ty = <<"i32">> /\ input.fields[2].ty = <<"String">>
  /\ GetOf(input.fields[1].ident) = None
  /\ ValueOf(input.fields[2].ident) = ""

\* C4: right after new_default() every field is present with the default
\* value of its type; the instance default() builds differs from it in the
\* presence of every field, while f_i() returns the same value on both.
NewDefaultAllPresent ==
  (Live /\ last.kind = "new_default") =>
     LET dflt == Construct(Resolve(DefaultImplFns(expanded), <<"d","e","f","a","u","l","t">>), <<>>)
     IN  \A i \in 1..Len(input.fields) :
           LET f == input.fields[i].ident
               ty == input.fields[i].ty
           IN  /\ GetOf(f) = Some(Default(ty))
               /\ ValueOf(f) = Default(ty)
               /\ Exec(Resolve(Fns, getter_name(f)), dflt, <<>>).ret = None
               /\ Exec(Resolve(Fns, f), dflt, <<>>).ret = ValueOf(f)

\* C4 witness: new_default() built an instance of a type with an i32 and a
\* String field, both present.
NewDefaultWitness ==
  /\ Live /\ last.kind = "new_default"
  /\ Len(input.fields) = 2
  /\ input.fields[1].ty = <<"i32">> /\ input.fields[2].ty = <<"String">>
  /\ GetOf(input.fields[1].ident) = Some("0")
  /\ GetOf(input.fields[2].ident) = Some("")

\* The input is a plain named-field record.
PlainNamedRecord == input.data = "struct" /\ input.style = "named"

\* C5 as stated: every input that is not a plain named-field record (a
\* unit struct included) is rejected by the macro, and nothing is emitted.
RejectsEveryNonNamedRecord ==
  (phase # "declared" /\ ~PlainNamedRecord) =>
     (phase = "panicked" /\ panic # "" /\ expanded = <<>>)

\* C5 as amended: the macro panics exactly on enums, unions and structs
\* with at least one unnamed field, and then emits nothing; a struct
\* without fields (unit or empty tuple struct) is accepted.
RejectsNonStructsAndUnnamedFields ==
  phase # "declared" =>
     /\ (phase = "panicked") <=>
          \/ input.data # "struct"
          \/ \E i \in 1..Len(input.fields) : input.fields[i].ident = NoIdent
     /\ phase = "panicked" => (panic # "" /\ expanded = <<>>)
     /\ phase # "panicked" => (panic = "" /\ Len(expanded) = 3)

\* C5 witness: the macro panicked on a tuple struct and emitted nothing.
TupleStructRejectedWitness ==
  /\ phase = "panicked"
  /\ input.data = "struct" /\ input.style = "unnamed" /\ Len(input.fields) = 2
  /\ panic = "No identifier found for type"
  /\ expanded = <<>>

\* C6: the emitted struct has the declared fields, in order, under the same
\* names, the i-th of type Option<T_i>; the declaration itself never changes.
\* (Emitted states are entered by a step, so the first conjunct is stated on
\* the step that enters them.)
FieldsPreserved ==
  [][ /\ Emitted' =>
           /\ Len(StructFields(expanded')) = Len(input.fields)
           /\ \A i \in 1..Len(input.fields) :
                /\ StructFields(expanded')[i].ident = input.fields[i].ident
                /\ StructFields(expanded')[i].ty = OptionOf(input.fields[i].ty)
      /\ input' = input
    ]_vars

\* C6 witness: a record of two fields of different types was expanded.
FieldsPreservedWitness ==
  /\ phase = "expanded"
  /\ Len(input.fields) = 2
  /\ input.fields[1].ty # input.fields[2].ty
  /\ StructFields(expanded)[2].ident = input.fields[2].ident

\* C7 as stated: the three methods emitted for a field f are named
\* lower(f), get_lower(f) and set_lower(f).
MethodNamesLowercase ==
  Emitted =>
     \A k \in 1..Len(Fns) :
        LET stem == to_lowercase(Fns[k].body.field)
        IN  /\ Fns[k].body.op = "clone_unwrap_or_default" => Fns[k].name = stem
            /\ Fns[k].body.op = "as_ref" => Fns[k].name = <<"g","e","t","_">> \o stem
            /\ Fns[k].body.op = "assign_some" => Fns[k].name = <<"s","e","t","_">> \o stem

\* C8: a setter leaves every other field as it was, and the two accessors
\* leave every field as it was (an absent field stays absent).
CallsTouchOwnFieldOnly ==
  Live =>
     /\ last.kind = "assign_some" =>
          \A g \in FieldIdents \ {last.field} : instance[g] = prev[g]
     /\ last.kind \in {"clone_unwrap_or_default", "as_ref"} => instance = prev

\* C8 witness: f() was called on an absent field of a two-field instance,
\* returned the default value, and the field is still absent.
AccessorOnAbsentWitness ==
  /\ Live /\ last.kind = "clone_unwrap_or_default"
  /\ Len(input.fields) = 2
  /\ instance[last.field] = None
  /\ last.ret = <<"0">>
  /\ \E g \in FieldIdents : instance[g] # None

\* get_f() returns present on the instance `self`.
PresentIn(self, f) == Exec(Resolve(Fns, getter_name(f)), self, <<>>).ret # None

Present(f) == PresentIn(instance, f)

\* C9: a field for which get_f() returned present before a call is present
\* after it, whatever the call (so, step by step, in every later state); a
\* setter leaves its field present; so a field is absent only on an instance
\* made by default(), and instances made by new or new_default stay
\* all-present.
PresenceMonotonic ==
  Live =>
     /\ \A f \in FieldIdents : PresentIn(prev, f) => Present(f)
     /\ last.kind = "assign_some" => Present(last.field)
     /\ \A f \in FieldIdents : ~Present(f) => origin = "default"

\* C9 witness: on an instance made by default(), a field was set and a later
\* get_f() on it returned present, while another field is still absent.
PresenceWitness ==
  /\ Live /\ origin = "default"
  /\ last.kind = "as_ref"
  /\ PresentIn(prev, last.field)
  /\ Present(last.field)
  /\ \E g \in FieldIdents : ~Present(g)

\* C10 as stated: for pairwise distinct field names, the functions emitted
\* in the impl block have pairwise distinct names.
EmittedNamesDistinct ==
  (Emitted /\ DistinctNames(input.fields)) => ~DuplicateDefinitions(Fns)

====
